---- MODULE Spec2Model ----
(***************************************************************************)
(* Model of m3u82mp3.py: conversion of an HLS audio playlist into one byte *)
(* stream (get_host_uri, get_ts_from_m3u8, save_converted_mp3, convert).   *)
(*                                                                         *)
(* Representation of Python values:                                        *)
(*  - a str is the list of its components between "/" (s.split("/")), so   *)
(*    "d/k" is <<"d","k">>, "" is <<"">>, "/a" is <<"","a">>; a str always   *)
(*    has at least one component; None (where a str is expected) is <<>>.  *)
(*  - bytes are sequences of 0..255.                                       *)
(*  - an object that may be None is a record with a flag.                  *)
(***************************************************************************)
EXTENDS Integers, Sequences, FiniteSets, TLC

\* ------------------------------------------------------------------ bounds
\* Longest playlist (number of segments) explored.
MaxSegs == 2
\* Largest small value of EXT-X-MEDIA-SEQUENCE explored (255 is added so that
\* the derived IV needs a carry into its second byte).
MaxSeq == 1

\* ------------------------------------------------------- program constants
\* AES block size and IV length in bytes: '%032x' is 32 hex digits = 16 bytes.
BlockSize == 16
\* Width of the hexadecimal expansion in '%032x'.
HexWidth == 32

\* ------------------------------------------------------------------ values
None == <<>>
EmptyStr == <<"">>

\* Python truthiness of an optional str: None and "" are both falsy.
Truthy(s) == s # None /\ s # EmptyStr

\* is_valid(url): urlparse(url) has both a scheme and a network location.
is_valid(url) ==
    /\ Len(url) >= 3
    /\ url[1] \in {"http:", "https:"}
    /\ url[2] = ""
    /\ url[3] # ""

\* "/".join(key_uri.split("/")[:-1])
ParentPath(u) == IF Len(u) <= 1 THEN EmptyStr ELSE SubSeq(u, 1, Len(u) - 1)

\* os.path.join(a, b) (posixpath): b wins if it starts with "/"; a + b if a is
\* empty or ends with "/"; a + "/" + b otherwise.
PathJoin(a, b) ==
    IF Len(b) >= 2 /\ b[1] = "" THEN b
    ELSE IF a = EmptyStr \/ (Len(a) >= 2 /\ a[Len(a)] = "")
         THEN SubSeq(a, 1, Len(a) - 1) \o b
         ELSE a \o b

\* ------------------------------------------------------------ IV derivation
RECURSIVE HexDigits(_)
\* '%x' % n for n >= 0: the hex digits of n, most significant first.
HexDigits(n) == IF n < 16 THEN <<n>> ELSE Append(HexDigits(n \div 16), (n % 16))

RECURSIVE ZeroPad(_, _)
\* The zero padding of the '0<w>' conversion flag: pad on the left up to w digits.
ZeroPad(d, w) == IF Len(d) >= w THEN d ELSE ZeroPad(<<0>> \o d, w)

\* binascii.a2b_hex: every pair of hex digits is one byte.
A2bHex(d) == [k \in 1..(Len(d) \div 2) |-> (16 * d[(2 * k) - 1]) + d[2 * k]]

\* The little-endian slip: bytes in the reverse order.
DeriveIV_littleEndian(ind) ==
    LET b == A2bHex(ZeroPad(HexDigits(ind), HexWidth))
    IN  [k \in 1..Len(b) |-> b[(Len(b) + 1) - k]]

\* iv = binascii.a2b_hex('%032x' % ind)
DeriveIV(ind) == A2bHex(ZeroPad(HexDigits(ind), HexWidth))

\* ------------------------------------------------------------------ cipher
RECURSIVE Xor(_, _)
\* Bitwise exclusive or of two bytes.
Xor(a, b) == IF a = 0 /\ b = 0 THEN 0
             ELSE (((a % 2) + (b % 2)) % 2) + (2 * Xor(a \div 2, b \div 2))

\* AES.new accepts keys of 16, 24 or 32 bytes only.
ValidKeyLen(k) == Len(k) \in {16, 24, 32}

\* The block decryption of the cipher, a keyed permutation of blocks (AES is
\* abstracted to a bytewise keyed shift; what the pipeline relies on is that
\* it is a function of key and block).
BlockDecrypt(k, blk) ==
    [j \in 1..BlockSize |-> ((blk[j] + 256) - k[((j - 1) % Len(k)) + 1]) % 256]

RECURSIVE CBCDecrypt(_, _, _)
\* cipher.decrypt(data) in CBC mode from chaining value `chain`: each plaintext
\* block is the block decryption xored with the previous ciphertext block.
CBCDecrypt(k, chain, data) ==
    IF Len(data) = 0 THEN <<>>
    ELSE LET blk == SubSeq(data, 1, BlockSize)
             d   == BlockDecrypt(k, blk)
         IN  [j \in 1..BlockSize |-> Xor(d[j], chain[j])]
             \o CBCDecrypt(k, blk, SubSeq(data, BlockSize + 1, Len(data)))

\* The chaining value a cipher object holds after decrypting `data`.
ChainAfter(chain, data) ==
    IF Len(data) = 0 THEN chain
    ELSE SubSeq(data, (Len(data) - BlockSize) + 1, Len(data))

\* ---------------------------------------------------------------- playlist
\* segment.key of a segment that precedes every EXT-X-KEY line: None.
NoKey == [present |-> FALSE, method |-> "", uri |-> None]
\* EXT-X-KEY:METHOD=NONE: a key object without a URI.
KeyNONE == [present |-> TRUE, method |-> "NONE", uri |-> None]
\* EXT-X-KEY:METHOD=AES-128,URI="u"
KeyAES(u) == [present |-> TRUE, method |-> "AES-128", uri |-> u]

\* Key URIs of the explored playlists: an absolute URL and a bare file name.
KeyUris == {<<"http:", "", "h", "d", "k">>, <<"k">>}
\* Segment URIs: relative, absolute path, absolute URL.
SegUris == {<<"s.ts">>, <<"", "abs", "s.ts">>, <<"http:", "", "h", "s.ts">>}

KeyChoices == {NoKey, KeyNONE} \cup {KeyAES(u) : u \in KeyUris}
Segments == [uri : SegUris, key : KeyChoices]

\* A segment has no key object only before the first EXT-X-KEY line.
NoKeyIsPrefix(segs) ==
    \A a \in 1..Len(segs) : \A b \in 1..Len(segs) :
        (a < b /\ segs[a].key.present) => segs[b].key.present

SegmentLists ==
    {segs \in UNION {[1..n -> Segments] : n \in 0..MaxSegs} : NoKeyIsPrefix(segs)}

MediaSequences == (0..MaxSeq) \cup {255}

RECURSIVE KeysOf(_)
\* m3u8_obj.keys: the distinct keys of the playlist in order of first use,
\* with None standing for the segments that have no key.
KeysOf(segs) ==
    IF Len(segs) = 0 THEN <<>>
    ELSE LET front == KeysOf(SubSeq(segs, 1, Len(segs) - 1))
             k     == segs[Len(segs)].key
         IN  IF \E j \in 1..Len(front) : front[j] = k THEN front
             ELSE Append(front, k)

\* m3u8.loads(text) for a well-formed text.
Loads(text) ==
    [media_sequence |-> text.media_sequence,
     segments       |-> text.segments,
     keys           |-> KeysOf(text.segments)]

\* ------------------------------------------------------------ get_host_uri
RECURSIVE ScanKeys(_, _)
\* The loop of get_host_uri from index j: the returned value, whether the
\* uncaught IndexError was raised, and the number of entries indexed.
ScanKeys(m, j) ==
    IF j >= m.media_sequence
    THEN [raised |-> FALSE, val |-> None, examined |-> j]
    ELSE IF j + 1 > Len(m.keys)
    THEN [raised |-> TRUE, val |-> None, examined |-> j + 1]
    ELSE IF (~m.keys[j + 1].present) \/ m.keys[j + 1].uri = None
    THEN ScanKeys(m, j + 1)
    ELSE [raised |-> FALSE, val |-> ParentPath(m.keys[j + 1].uri),
          examined |-> j + 1]

get_host_uri(m) == ScanKeys(m, 0)

\* ------------------------------------------------------------------- fetch
\* One 16-byte block with every byte b.
Blk(b) == [j \in 1..BlockSize |-> b]

\* Contents a location may hold: two blocks, and three bytes (not a multiple of
\* the block size).
SegmentContents == {Blk(9) \o Blk(130), <<7, 7, 7>>}
\* Key files: a valid 16-byte key and an empty file.
KeyContents == {[j \in 1..16 |-> 3 * j], <<>>}

\* read_bytes(path): the bytes at the location, or an error of urlopen/open.
ReadResults(contents) ==
    {[ok |-> TRUE, bytes |-> c] : c \in contents} \cup {[ok |-> FALSE, bytes |-> <<>>]}

\* ------------------------------------------------------------------- state
VARIABLES
    input,         \* what the text of the input stream parses to
    host_arg,      \* the host_uri argument of get_ts_from_m3u8
    viaConvert,    \* TRUE when get_ts_from_m3u8 is called by convert (no host_uri)
    m3u8_obj,      \* the parsed playlist
    host_uri,      \* local host_uri
    hostRet,       \* outcome of the call of get_host_uri, if it was called
    pc,            \* position in get_ts_from_m3u8 / convert
    err,           \* the exception that ended the conversion
    i,             \* loop index (0-based, as enumerate gives it)
    key,           \* local key: None or the fetched bytes
    cipher,        \* the cipher object of the current iteration
    decrypt_func,  \* "identity" (lambda x: x) or "cipher" (cipher.decrypt)
    data,          \* bytes of the segment being processed
    plain,         \* value of decrypt_func(data)
    ts_content,    \* working buffer
    output,        \* the writes made to the output sink, in order
    events         \* history: fetches, cipher creations, decrypts, appends

vars == <<input, host_arg, viaConvert, m3u8_obj, host_uri, hostRet, pc, err, i,
          key, cipher, decrypt_func, data, plain, ts_content, output, events>>

NoCipher == [key |-> <<>>, chain |-> <<>>]
KeyIsNone == [isNone |-> TRUE, bytes |-> <<>>]

Event(ev, idx, loc, val, ok) ==
    [ev |-> ev, idx |-> idx, loc |-> loc, val |-> val, ok |-> ok]

\* The caller's host_uri: absent, empty, or a directory.
HostArgs == {None, EmptyStr, <<"base">>}

Inputs ==
    [ok : {TRUE}, media_sequence : MediaSequences, segments : SegmentLists]
    \cup {[ok |-> FALSE, media_sequence |-> 0, segments |-> <<>>]}

Init ==
    /\ input \in Inputs
    /\ host_arg \in HostArgs
    /\ viaConvert = (host_arg = None)
    /\ m3u8_obj = [media_sequence |-> 0, segments |-> <<>>, keys |-> <<>>]
    /\ host_uri = host_arg
    /\ hostRet = [called |-> FALSE, raised |-> FALSE, val |-> None, examined |-> 0]
    /\ pc = "parse"
    /\ err = "none"
    /\ i = 0
    /\ key = KeyIsNone
    /\ cipher = NoCipher
    /\ decrypt_func = "identity"
    /\ data = <<>>
    /\ plain = <<>>
    /\ ts_content = <<>>
    /\ output = <<>>
    /\ events = <<>>

\* raise TypeError("Host URL is not set.")
HostNotSet == "TypeError: Host URL is not set."

\* An exception leaves get_ts_from_m3u8 (and convert, which catches nothing).
Raise(e) == pc' = "error" /\ err' = e

\* The segment of the current iteration.
segment == m3u8_obj.segments[i + 1]

\* m3u8_obj = m3u8.loads(input.read())
Parse ==
    /\ pc = "parse"
    /\ IF input.ok
       THEN /\ m3u8_obj' = Loads(input)
            /\ pc' = "host"
            /\ err' = err
       ELSE /\ Raise("ValueError")
            /\ m3u8_obj' = m3u8_obj
    /\ UNCHANGED <<input, host_arg, viaConvert, host_uri, hostRet, i, key, cipher,
                   decrypt_func, data, plain, ts_content, output, events>>

\* The `not host_uri` slip: an empty host counts as missing too.
HostMissing_falsy(h) == ~Truthy(h)

\* if host_uri is None
HostMissing(h) == h = None

\* host_uri = host_uri or get_host_uri(m3u8_obj); raise TypeError if it is None
ResolveHost ==
    /\ pc = "host"
    /\ IF Truthy(host_uri)
       THEN /\ pc' = "loop"
            /\ UNCHANGED <<host_uri, hostRet, err>>
       ELSE LET r == get_host_uri(m3u8_obj)
            IN  /\ hostRet' = [called |-> TRUE, raised |-> r.raised, val |-> r.val,
                               examined |-> r.examined]
                /\ IF r.raised
                   THEN Raise("IndexError") /\ host_uri' = host_uri
                   ELSE /\ host_uri' = r.val
                        /\ IF HostMissing(r.val)
                           THEN Raise(HostNotSet)
                           ELSE pc' = "loop" /\ err' = err
    /\ UNCHANGED <<input, host_arg, viaConvert, m3u8_obj, i, key, cipher,
                   decrypt_func, data, plain, ts_content, output, events>>

\* The always-refetch slip.
NeedKey_always(k) == TRUE

\* if not key
NeedKey(k) == k.isNone \/ k.bytes = <<>>

\* The slip of hoisting `decrypt_func = lambda x: x` out of the loop.
LoopDecryptFunc_stale(old) == old

\* decrypt_func = lambda x: x, at the top of every iteration
LoopDecryptFunc(old) == "identity"

\* for i, segment in enumerate(m3u8_obj.segments): ... if segment.key.method == "AES-128"
LoopHead ==
    /\ pc = "loop"
    /\ IF i >= Len(m3u8_obj.segments)
       THEN /\ pc' = "returned"
            /\ UNCHANGED <<decrypt_func, err>>
       ELSE /\ decrypt_func' = LoopDecryptFunc(decrypt_func)
            /\ IF ~segment.key.present
               THEN Raise("AttributeError")
               ELSE /\ err' = err
                    /\ pc' = IF segment.key.method = "AES-128"
                             THEN (IF NeedKey(key) THEN "key" ELSE "cipher")
                             ELSE "fetch"
    /\ UNCHANGED <<input, host_arg, viaConvert, m3u8_obj, host_uri, hostRet, i, key,
                   cipher, data, plain, ts_content, output, events>>

\* The slip of resolving the key like a segment.
KeyLocation_joined(host, uri) == PathJoin(host, uri)

\* key_uri = segment.key.uri, passed to read_bytes as it is
KeyLocation(host, uri) == uri

\* The slip of leaving the iteration's cipher set-up after the key fetch.
AfterKeyFetch_skip == "fetch"

\* After the key fetch the iteration goes on with the cipher set-up.
AfterKeyFetch == "cipher"

\* key_uri = segment.key.uri; key = read_bytes(key_uri)
FetchKey ==
    /\ pc = "key"
    /\ \E r \in ReadResults(KeyContents) :
        /\ events' = Append(events,
               Event("key_fetch", i, KeyLocation(host_uri, segment.key.uri), r.bytes, r.ok))
        /\ IF r.ok
           THEN /\ key' = [isNone |-> FALSE, bytes |-> r.bytes]
                /\ pc' = AfterKeyFetch
                /\ err' = err
           ELSE /\ Raise("RetrievalError")
                /\ key' = key
    /\ UNCHANGED <<input, host_arg, viaConvert, m3u8_obj, host_uri, hostRet, i, cipher,
                   decrypt_func, data, plain, ts_content, output>>

\* ind = i + media_sequence
AbsoluteSequence(idx, start) == idx + start

\* ind = ...; iv = ...; cipher = AES.new(key, AES.MODE_CBC, iv=iv);
\* decrypt_func = cipher.decrypt
CreateCipher ==
    /\ pc = "cipher"
    /\ LET iv == DeriveIV(AbsoluteSequence(i, m3u8_obj.media_sequence))
       IN  /\ events' = Append(events, Event("iv", i, None, iv, ValidKeyLen(key.bytes)))
           /\ IF ValidKeyLen(key.bytes)
              THEN /\ cipher' = [key |-> key.bytes, chain |-> iv]
                   /\ decrypt_func' = "cipher"
                   /\ pc' = "fetch"
                   /\ err' = err
              ELSE /\ Raise("ValueError")
                   /\ UNCHANGED <<cipher, decrypt_func>>
    /\ UNCHANGED <<input, host_arg, viaConvert, m3u8_obj, host_uri, hostRet, i, key,
                   data, plain, ts_content, output>>

\* ts_url = os.path.join(host_uri, segment.uri); data = read_bytes(ts_url)
FetchSegment ==
    /\ pc = "fetch"
    /\ \E r \in ReadResults(SegmentContents) :
        /\ events' = Append(events,
               Event("seg_fetch", i, PathJoin(host_uri, segment.uri), r.bytes, r.ok))
        /\ IF r.ok
           THEN /\ data' = r.bytes
                /\ pc' = "decrypt"
                /\ err' = err
           ELSE /\ Raise("RetrievalError")
                /\ data' = data
    /\ UNCHANGED <<input, host_arg, viaConvert, m3u8_obj, host_uri, hostRet, i, key,
                   cipher, decrypt_func, plain, ts_content, output>>

\* decrypt_func(data)
Decrypt ==
    /\ pc = "decrypt"
    /\ IF decrypt_func = "identity"
       THEN /\ plain' = data
            /\ events' = Append(events, Event("decrypt", i, None, data, TRUE))
            /\ pc' = "append"
            /\ UNCHANGED <<cipher, err>>
       ELSE IF Len(data) % BlockSize # 0
       THEN /\ Raise("ValueError")
            /\ events' = Append(events, Event("decrypt", i, None, <<>>, FALSE))
            /\ UNCHANGED <<plain, cipher>>
       ELSE /\ plain' = CBCDecrypt(cipher.key, cipher.chain, data)
            /\ cipher' = [cipher EXCEPT !.chain = ChainAfter(cipher.chain, data)]
            /\ events' = Append(events, Event("decrypt", i, None, plain', TRUE))
            /\ pc' = "append"
            /\ err' = err
    /\ UNCHANGED <<input, host_arg, viaConvert, m3u8_obj, host_uri, hostRet, i, key,
                   decrypt_func, data, ts_content, output>>

\* The slip of putting the new bytes in front.
Concat_prepend(buf, more) == more \o buf

\* ts_content += ...
Concat(buf, more) == buf \o more

\* ts_content += decrypt_func(data), and on to the next segment
AppendContent ==
    /\ pc = "append"
    /\ ts_content' = Concat(ts_content, plain)
    /\ events' = Append(events, Event("append", i, None, plain, TRUE))
    /\ i' = i + 1
    /\ pc' = "loop"
    /\ UNCHANGED <<input, host_arg, viaConvert, m3u8_obj, host_uri, hostRet, err, key,
                   cipher, decrypt_func, data, plain, output>>

\* The slip of saving in a `finally`: also after an error.
SaveReached_finally == viaConvert /\ pc \in {"returned", "error"}

\* save_converted_mp3 runs only once get_ts_from_m3u8 has returned.
SaveReached == viaConvert /\ pc = "returned"

\* save_converted_mp3(output, ts_bytes): output.write(content); the returned
\* bytes are never None.
Save ==
    /\ SaveReached
    /\ output' = Append(output, ts_content)
    /\ pc' = "done"
    /\ UNCHANGED <<input, host_arg, viaConvert, m3u8_obj, host_uri, hostRet, err, i, key,
                   cipher, decrypt_func, data, plain, ts_content, events>>

Next ==
    \/ Parse
    \/ ResolveHost
    \/ LoopHead
    \/ FetchKey
    \/ CreateCipher
    \/ FetchSegment
    \/ Decrypt
    \/ AppendContent
    \/ Save

Spec == Init /\ [][Next]_vars

\* ---------------------------------------------------------------- history
\* Positions of the events of one kind.
EventsOf(kind) == {j \in 1..Len(events) : events[j].ev = kind}

\* Positions of the events of one kind for the segment at index idx.
EventsAt(kind, idx) == {j \in EventsOf(kind) : events[j].idx = idx}

IsAES(idx) == m3u8_obj.segments[idx + 1].key.method = "AES-128"

\* The bytes the fetch of segment idx returned, and the bytes of the key file.
FetchedData(idx) == events[CHOOSE j \in EventsAt("seg_fetch", idx) : events[j].ok].val
FetchedKey == events[CHOOSE j \in EventsOf("key_fetch") : events[j].ok].val

\* What segment idx owes to the output: its bytes, decrypted from its own IV
\* if its method is AES-128.
Contribution(idx) ==
    IF IsAES(idx)
    THEN CBCDecrypt(FetchedKey, DeriveIV(idx + m3u8_obj.media_sequence), FetchedData(idx))
    ELSE FetchedData(idx)

RECURSIVE ExpectedContent(_)
ExpectedContent(n) ==
    IF n = 0 THEN <<>> ELSE ExpectedContent(n - 1) \o Contribution(n - 1)

\* ---------------------------------------------------------------------- C1
\* C1: when get_ts_from_m3u8 returns, every segment was fetched exactly once,
\* and the returned bytes are the concatenation, in playlist order and with
\* nothing in between, of the fetched bytes of each non-AES segment and the
\* decryption of the fetched bytes of each AES-128 segment.
C1_OutputIsOrderedConcatenation ==
    pc \in {"returned", "done"} =>
        /\ \A idx \in 0..(Len(m3u8_obj.segments) - 1) :
               Cardinality(EventsAt("seg_fetch", idx)) = 1
        /\ Cardinality(EventsOf("seg_fetch")) = Len(m3u8_obj.segments)
        /\ ts_content = ExpectedContent(Len(m3u8_obj.segments))

\* A returned conversion of an AES-128 segment followed by a clear one whose
\* contributions differ.
C1_Witness ==
    /\ pc = "returned"
    /\ Len(m3u8_obj.segments) = 2
    /\ IsAES(0) /\ ~IsAES(1)
    /\ Contribution(0) # Contribution(1)
    /\ Len(ts_content) = Len(FetchedData(0)) + Len(FetchedData(1))

\* ---------------------------------------------------------------------- C2
\* C2: in one conversion the key is fetched at most once, whatever bytes the
\* fetch returns and however many AES-128 segments follow.
C2_KeyFetchedAtMostOnce == Cardinality(EventsOf("key_fetch")) <= 1

\* Two AES-128 segments got their cipher after a single key fetch.
C2_Witness ==
    /\ Cardinality(EventsOf("key_fetch")) = 1
    /\ \E a \in EventsOf("iv") : \E b \in EventsOf("iv") :
           events[a].idx # events[b].idx /\ events[a].ok /\ events[b].ok

\* ---------------------------------------------------------------------- C3
RECURSIVE FirstKeyUriParent(_, _)
\* Parent path of the first key URI met scanning the entries from position j.
FirstKeyUriParent(segs, j) ==
    IF j > Len(segs) THEN None
    ELSE IF segs[j].key.present /\ segs[j].key.uri # None
    THEN ParentPath(segs[j].key.uri)
    ELSE FirstKeyUriParent(segs, j + 1)

\* C3: whatever the starting sequence number, get_host_uri returns the parent
\* path of the first key URI of the playlist, and absent only if there is none.
C3_HostIsParentOfFirstKeyUri ==
    (hostRet.called /\ ~hostRet.raised) =>
        hostRet.val = FirstKeyUriParent(m3u8_obj.segments, 1)

\* ---------------------------------------------------------------------- C9
\* C9: the scan of get_host_uri examines at most as many entries as there are
\* segments, never indexes past the end of the key list, and so ends by
\* returning.
C9_ScanIsBoundedBySegments ==
    hostRet.called =>
        /\ ~hostRet.raised
        /\ hostRet.examined <= Len(m3u8_obj.segments)

\* ---------------------------------------------------------------------- C4
\* b is the 16-byte big-endian encoding of n (for n < 2^24: the thirteen
\* leading bytes are zero and the last three carry n, most significant first).
IsBigEndian16(b, n) ==
    /\ Len(b) = 16
    /\ \A k \in 1..13 : b[k] = 0
    /\ \A k \in 14..16 : b[k] \in 0..255
    /\ (((b[14] * 256) + b[15]) * 256) + b[16] = n

\* C4: the IV given to the cipher of the segment at index idx is the 16-byte
\* big-endian encoding of media_sequence + idx, and segments with different
\* sequence numbers get different IVs.
C4_IVIsBigEndianSequenceNumber ==
    /\ \A j \in EventsOf("iv") :
           IsBigEndian16(events[j].val, m3u8_obj.media_sequence + events[j].idx)
    /\ \A a \in EventsOf("iv") : \A b \in EventsOf("iv") :
           events[a].idx # events[b].idx => events[a].val # events[b].val

\* Two ciphers were set up in one conversion, the second one for sequence
\* number 256, whose IV ends in the bytes 1, 0.
C4_Witness ==
    \E a \in EventsOf("iv") : \E b \in EventsOf("iv") :
        /\ events[a].idx = 0 /\ events[b].idx = 1
        /\ m3u8_obj.media_sequence = 255
        /\ events[b].val[15] = 1 /\ events[b].val[16] = 0
        /\ events[a].val[15] = 0 /\ events[a].val[16] = 255

\* ---------------------------------------------------------------------- C5
\* C5: the sink is written at most once, only when every segment has been
\* fetched, decrypted and appended, and with the whole buffer; after any
\* error nothing has been written and the error is the caller's.
C5_AllOrNothing ==
    /\ Len(output) <= 1
    /\ Len(output) = 1 =>
           /\ pc = "done" /\ err = "none"
           /\ \A idx \in 0..(Len(m3u8_obj.segments) - 1) :
                  /\ EventsAt("seg_fetch", idx) # {}
                  /\ EventsAt("decrypt", idx) # {}
                  /\ EventsAt("append", idx) # {}
           /\ output[1] = ts_content
    /\ pc = "error" => (output = <<>> /\ err # "none")
    /\ err # "none" => pc = "error"

\* convert wrote the buffer of a two-segment playlist.
C5_Witness ==
    /\ pc = "done"
    /\ Len(m3u8_obj.segments) = 2
    /\ Len(output) = 1
    /\ Len(output[1]) > 0

\* ---------------------------------------------------------------------- C6
\* A base location is required: some segment URI is not an absolute URL.
BaseRequired == \E j \in 1..Len(m3u8_obj.segments) : ~is_valid(m3u8_obj.segments[j].uri)

\* C6 as stated: the conversion fails with "host location not set" only if a
\* base location is required, none was supplied and none can be resolved from
\* a key URI.
C6_HostErrorOnlyIfRequired ==
    err = HostNotSet =>
        /\ BaseRequired
        /\ ~Truthy(host_arg)
        /\ FirstKeyUriParent(m3u8_obj.segments, 1) = None

\* C6 amended: the conversion fails with "host location not set" exactly when
\* the caller supplied no non-empty base location and get_host_uri returned
\* absent, whether or not any segment URI is relative.
C6_HostErrorIffNoHost ==
    (input.ok /\ pc \notin {"parse", "host"}) =>
        ((err = HostNotSet) <=>
            (~Truthy(host_arg) /\ hostRet.called /\ ~hostRet.raised /\ hostRet.val = None))

\* The error for a playlist whose segment URIs are all absolute URLs.
C6_Witness ==
    /\ err = HostNotSet
    /\ Len(m3u8_obj.segments) >= 1
    /\ ~BaseRequired

\* ---------------------------------------------------------------------- C7
\* C7 as stated: a key URI that is not an absolute URL is fetched from the
\* base location joined with it.
C7_RelativeKeyJoinedWithBase ==
    \A j \in EventsOf("key_fetch") :
        LET uri == m3u8_obj.segments[events[j].idx + 1].key.uri
        IN  ~is_valid(uri) => events[j].loc = PathJoin(host_uri, uri)

\* C7 amended: the key is fetched from the key URI exactly as the playlist
\* gives it; the base location is not joined to it.
C7_KeyFetchedAtRawUri ==
    \A j \in EventsOf("key_fetch") :
        events[j].loc = m3u8_obj.segments[events[j].idx + 1].key.uri

\* A relative key URI was fetched although joining it with the base location
\* gives another location.
C7_Witness ==
    \E j \in EventsOf("key_fetch") :
        LET uri == m3u8_obj.segments[events[j].idx + 1].key.uri
        IN  /\ ~is_valid(uri)
            /\ PathJoin(host_uri, uri) # uri
            /\ events[j].loc = uri

\* ---------------------------------------------------------------------- C8
\* Some event of the kind for segment idx precedes position j.
Before(kind, idx, j) == \E k \in EventsAt(kind, idx) : k < j

\* C8: for every segment the events come in the order key fetch (first
\* AES-128 segment only), IV derivation, segment fetch, decrypt, append; the
\* key is there before the first AES-128 segment is fetched; and segment
\* idx + 1 is not fetched before segment idx has been appended.
C8_LoopIsSequential ==
    \A j \in 1..Len(events) :
        LET e == events[j] IN
        /\ e.ev = "iv" =>
               /\ \E k \in EventsOf("key_fetch") : k < j /\ events[k].ok
               /\ \A k \in EventsOf("key_fetch") : k < j
        /\ e.ev = "key_fetch" =>
               \A k \in 1..(j - 1) : events[k].ev \notin {"key_fetch", "iv"}
        /\ e.ev = "seg_fetch" =>
               /\ IsAES(e.idx) =>
                      /\ Before("iv", e.idx, j)
                      /\ \E k \in EventsOf("key_fetch") : k < j /\ events[k].ok
               /\ e.idx > 0 => Before("append", e.idx - 1, j)
               /\ \A k \in 1..(j - 1) : events[k].idx <= e.idx
        /\ e.ev = "decrypt" => Before("seg_fetch", e.idx, j)
        /\ e.ev = "append" => Before("decrypt", e.idx, j)

\* Two AES-128 segments went through the whole loop.
C8_Witness ==
    /\ EventsAt("append", 1) # {}
    /\ IsAES(0) /\ IsAES(1)
    /\ Cardinality(EventsOf("key_fetch")) = 1

\* --------------------------------------------------------------------- C10
\* C10: whether a segment is decrypted depends on its own method only, and an
\* AES-128 segment is decrypted by a cipher that starts from its own IV.
C10_DecryptChoiceIsPerSegment ==
    /\ pc = "decrypt" =>
           /\ (decrypt_func = "cipher") <=> IsAES(i)
           /\ IsAES(i) =>
                  /\ cipher.chain = DeriveIV(i + m3u8_obj.media_sequence)
                  /\ cipher.key = key.bytes
    /\ pc = "append" =>
           plain = IF IsAES(i)
                   THEN CBCDecrypt(key.bytes, DeriveIV(i + m3u8_obj.media_sequence), data)
                   ELSE data

\* A clear segment that follows a decrypted AES-128 segment is about to be
\* appended unchanged.
C10_Witness ==
    /\ pc = "append"
    /\ i = 1
    /\ IsAES(0) /\ ~IsAES(1)
    /\ Len(data) > BlockSize
    /\ plain = data

====
